---- MODULE Spec2Model ----
(***************************************************************************)
(* A model of the video assembly pipeline of src/movie.py (class Video and *)
(* the module-level probe workers) together with its caller in src/app.py. *)
(*                                                                         *)
(* Conventions.  Python None for a result/overlay is a record with a       *)
(* distinguishing field; a caption is a tuple of one-character strings, a  *)
(* JSON null caption is the tuple NoneText.  Durations are integers in     *)
(* milliseconds, -1 standing for "the call raised".  File contents are the *)
(* strings "absent", "partial", "empty" (zero bytes) and "full".           *)
(*                                                                         *)
(* Spec and SpecStory run the app session, SpecReuse a caller that keeps   *)
(* one Video object.  SpecZoom, SpecZoomEffect, SpecWrap, SpecWorker,      *)
(* SpecPool and SpecOverlay apply a single function to arguments drawn     *)
(* from bounded sets: call holds the arguments, value what the function    *)
(* has yielded, the pipeline is at rest.  SpecPair follows two overlapping *)
(* invocations through the files they share, with their state in value.    *)
(***************************************************************************)
EXTENDS Integers, Sequences, FiniteSets, TLC

\* ------------------------------------------------------------------ bounds
MaxScenes == 2
MaxCalls == 2

\* ------------------------------------------------------- program constants
Fps == 24
sample_rate == 4
zoom_sample_rate == 4
zoom_start_pct == 100
zoom_end_pct == 115
MaxPoolWorkers == 8
VideoSize == <<1920, 1080>>

TempVideo == "temp_video.mp4"
FinalAudio == "temp_combined_audio.wav"
ListFile == "audio_list.txt"
Output == "story_video.mp4"
FileNames == {TempVideo, FinalAudio, ListFile, Output}

\* ---------------------------------------------------------- the input space
NoneText == <<"None">>

\* The image files a scene may name: content, "corrupt" (exists, cannot be
\* decoded) or "missing".
ImageDisk0 == [p \in {"a.png", "b.png", "corrupt.png", "gone.png"} |->
                 CASE p = "a.png" -> "A"
                   [] p = "b.png" -> "B"
                   [] p = "corrupt.png" -> "corrupt"
                   [] OTHER -> "missing"]

\* An audio file as the probe sees it: decode is what librosa.load yields
\* (len(y)/sr in ms, -1 when it raises), exit how the ffprobe call ends
\* ("0", "nonzero" or "timeout"), probe what float(result.stdout.strip())
\* yields (ms, -1 when the parse raises).
Audio(decode, exit, probe) == [exists |-> TRUE, decode |-> decode, exit |-> exit, probe |-> probe]

\* The audio files a scene may name.
AudioDisk == [p \in {"s1.wav", "s2.wav", "tiny.wav", "empty.wav", "raw.amr",
                     "junk.wav", "na.amr", "slow.amr", "killed.amr",
                     "one.wav", "two.wav", "three.wav", "gone.wav"} |->
                CASE p = "s1.wav" -> Audio(100, "0", 100)
                  [] p = "s2.wav" -> Audio(250, "0", 250)
                  [] p = "tiny.wav" -> Audio(30, "0", 30)
                  [] p = "empty.wav" -> Audio(0, "0", 0)
                  [] p = "raw.amr" -> Audio(-1, "0", 100)
                  [] p = "junk.wav" -> Audio(-1, "nonzero", -1)
                  [] p = "na.amr" -> Audio(-1, "0", -1)
                  [] p = "slow.amr" -> Audio(-1, "timeout", -1)
                  [] p = "killed.amr" -> Audio(-1, "nonzero", 100)
                  [] p = "one.wav" -> Audio(1000, "0", 1000)
                  [] p = "two.wav" -> Audio(2000, "0", 2000)
                  [] p = "three.wav" -> Audio(3000, "0", 3000)
                  [] OTHER -> [exists |-> FALSE, decode |-> -1, exit |-> "nonzero", probe |-> -1]]

Scene(img, aud, txt) == [image_path |-> img, audio_path |-> aud, audio_text |-> txt]

\* The scene descriptors the scene lists are drawn from.
SceneItems ==
  { Scene("a.png", "s1.wav", <<"x">>),
    Scene("a.png", "s1.wav", <<>>),
    Scene("b.png", "s2.wav", <<"x">>),
    Scene("b.png", "raw.amr", <<" ">>),
    Scene("corrupt.png", "s1.wav", <<>>),
    Scene("a.png", "tiny.wav", <<"x">>),
    Scene("gone.png", "s1.wav", <<"x">>),
    Scene("", "s1.wav", <<>>),
    Scene("a.png", "gone.wav", <<"x">>),
    Scene("a.png", "junk.wav", <<>>),
    Scene("a.png", "empty.wav", <<>>),
    Scene("a.png", "s1.wav", NoneText) }

SceneLists == UNION { [1..n -> SceneItems] : n \in 0..MaxScenes }

CpuCounts == {1, 4}

VARIABLES
  multimedia_data,      \* the scene list json.load returns
  imgDisk,              \* image path -> content
  files,                \* intermediate and output files -> content
  manifest,             \* the lines last written to audio_list.txt
  video_path,           \* st.session_state.video_path ("" is None)
  calls,                \* create_video_from_json calls started so far
  log,                  \* the diagnostics printed by the current call
  pc,                   \* position in create_video_from_json
  ret,                  \* "none", "True", "False" or "raised"
  max_workers,          \* pool size of this run
  task,                 \* pool: index -> "queued" | "running" | "done"
  results,              \* pool: index -> worker result
  doneOrder,            \* pool: indices in completion order
  parallel_results,     \* what process_scenes_parallel returned
  processed_scenes,
  font_cache, text_overlay_cache, zoom_frame_cache,
  i, frame_num,         \* loop counters (i is 1-based)
  writerOpen,
  written,              \* frames handed to video_writer.write, in order
  temp_audio_files,
  muxExit,              \* "notrun", "0", "nonzero" or "timeout"
  call,                 \* a single function applied on its own: its arguments
  value                 \* and what it has yielded so far

inputVars == <<multimedia_data, imgDisk>>
fsVars == <<files, manifest>>
poolVars == <<max_workers, task, results, doneOrder, parallel_results>>
cacheVars == <<font_cache, text_overlay_cache, zoom_frame_cache>>
loopVars == <<i, frame_num, writerOpen, written, temp_audio_files>>
callerVars == <<video_path, calls>>
unitVars == <<call, value>>
pipeVars == <<inputVars, fsVars, callerVars, pc, ret, log, poolVars, processed_scenes,
              cacheVars, loopVars, muxExit>>
vars == <<pipeVars, unitVars>>

\* ------------------------------------------------------------ small helpers
Min(a, b) == IF a < b THEN a ELSE b
Max(a, b) == IF a > b THEN a ELSE b

RECURSIVE SumSeq(_)
SumSeq(s) == IF s = <<>> THEN 0 ELSE Head(s) + SumSeq(Tail(s))

\* os.path.exists for the paths the input may name.
PathExistsImage(disk, p) == p \in DOMAIN disk /\ disk[p] # "missing"
PathExistsAudio(p) == p \in DOMAIN AudioDisk /\ AudioDisk[p].exists

EmptyCache == [k \in {} |-> 0]


\* ------------------------------------------------------------ probe worker
NoResult == [ok |-> FALSE]

\* The fallback is run only when librosa.load raised.
probe_invoked(audio_path) == AudioDisk[audio_path].decode = -1

\* librosa.load first; ffprobe only when it raised.  subprocess.run raises
\* on a timeout; the exit status is not looked at, only stdout is parsed.
ProbeDuration(audio_path) ==
  LET f == AudioDisk[audio_path]
  IN IF ~probe_invoked(audio_path) THEN f.decode
     ELSE IF f.exit = "timeout" THEN -1
     ELSE f.probe

\* Mutant: the frame count rounded to the nearest integer, round().
TotalFramesRounded(audio_duration, fps) == (audio_duration * fps + 500) \div 1000

\* Mutant: the frame count rounded up, math.ceil().
TotalFramesCeil(audio_duration, fps) == (audio_duration * fps + 999) \div 1000

\* Python int(): truncation towards zero of num/den (den > 0).
IntTrunc(num, den) == IF num >= 0 THEN num \div den ELSE -((-num) \div den)

\* int(audio_duration * fps), the duration being in milliseconds here.
TotalFrames(audio_duration, fps) == IntTrunc(audio_duration * fps, 1000)

\* Mutant: the worker without the check that the image file exists.
worker_without_image_check(scene_item, fps, disk) ==
  LET audio_path == scene_item.audio_path
  IN IF audio_path = "" \/ ~PathExistsAudio(audio_path) THEN NoResult
     ELSE LET audio_duration == ProbeDuration(audio_path)
          IN IF audio_duration <= 0 THEN NoResult
             ELSE [ok |-> TRUE,
                   image_path |-> scene_item.image_path,
                   audio_path |-> audio_path,
                   text |-> scene_item.audio_text,
                   audio_duration |-> audio_duration,
                   total_frames |-> TotalFrames(audio_duration, fps)]

process_single_scene_worker(scene_item, fps, disk) ==
  LET image_path == scene_item.image_path
      audio_path == scene_item.audio_path
      text == scene_item.audio_text
  IN IF image_path = "" \/ ~PathExistsImage(disk, image_path) THEN NoResult
     ELSE IF audio_path = "" \/ ~PathExistsAudio(audio_path) THEN NoResult
     ELSE LET audio_duration == ProbeDuration(audio_path)
          IN IF audio_duration = -1 THEN NoResult
             ELSE IF audio_duration <= 0 THEN NoResult
             ELSE [ok |-> TRUE,
                   image_path |-> image_path,
                   audio_path |-> audio_path,
                   text |-> text,
                   audio_duration |-> audio_duration,
                   total_frames |-> TotalFrames(audio_duration, fps)]

\* Mutant: the pool size without the cap of MaxPoolWorkers.
PoolSizeUncapped(cpu_count) == Max(1, (cpu_count * 3) \div 4)

PoolSize(cpu_count) == Min(MaxPoolWorkers, Max(1, (cpu_count * 3) \div 4))

\* list(executor.map(...)) yields the results by submission index; the
\* completion order plays no part.
RECURSIVE FilterValid(_, _, _)
FilterValid(res, k, n) ==
  IF k > n THEN <<>>
  ELSE (IF res[k].ok THEN <<res[k]>> ELSE <<>>) \o FilterValid(res, k + 1, n)

\* Mutant: the results gathered as the workers complete (as_completed).
RECURSIVE FilterInOrder(_, _)
FilterInOrder(res, order) ==
  IF order = <<>> THEN <<>>
  ELSE (IF res[Head(order)].ok THEN <<res[Head(order)]>> ELSE <<>>)
         \o FilterInOrder(res, Tail(order))

CollectByCompletion(res, order) == FilterInOrder(res, order)

CollectResults(res, order) == FilterValid(res, 1, Len(res))

\* ------------------------------------------------------------ text overlay
IsSpace(c) == c \in {" ", "\t", "\n"}

RECURSIVE LStrip(_)
LStrip(t) == IF t # <<>> /\ IsSpace(Head(t)) THEN LStrip(Tail(t)) ELSE t

RECURSIVE RStrip(_)
RStrip(t) ==
  IF t # <<>> /\ IsSpace(t[Len(t)]) THEN RStrip(SubSeq(t, 1, Len(t) - 1)) ELSE t

Strip(t) == RStrip(LStrip(t))

NoOverlay == [none |-> TRUE]

FontSize(video_size) == Max(32, video_size[1] \div 40)

\* Mutant: the overlay rendered again without looking at the cache.
create_text_overlay_uncached(text, video_size, cache, fonts) ==
  IF text = NoneText
    THEN [raised |-> TRUE, overlay |-> NoOverlay, cache |-> cache, fonts |-> fonts,
          rendered |-> FALSE]
  ELSE IF Strip(text) = <<>>
    THEN [raised |-> FALSE, overlay |-> NoOverlay, cache |-> cache, fonts |-> fonts,
          rendered |-> FALSE]
  ELSE LET cache_key == <<text, video_size[1], video_size[2]>>
           overlay == [none |-> FALSE, text |-> text, size |-> video_size]
       IN [raised |-> FALSE, overlay |-> overlay,
           cache |-> (cache_key :> overlay) @@ cache,
           fonts |-> fonts \cup {FontSize(video_size)},
           rendered |-> TRUE]

\* [raised, overlay, cache, fonts, rendered]: text.strip() raises on None;
\* rendered tells whether a new bitmap was drawn by this call.
create_text_overlay_once(text, video_size, cache, fonts) ==
  IF text = NoneText
    THEN [raised |-> TRUE, overlay |-> NoOverlay, cache |-> cache, fonts |-> fonts,
          rendered |-> FALSE]
  ELSE IF Strip(text) = <<>>
    THEN [raised |-> FALSE, overlay |-> NoOverlay, cache |-> cache, fonts |-> fonts,
          rendered |-> FALSE]
  ELSE LET cache_key == <<text, video_size[1], video_size[2]>>
       IN IF cache_key \in DOMAIN cache
            THEN [raised |-> FALSE, overlay |-> cache[cache_key],
                  cache |-> cache, fonts |-> fonts, rendered |-> FALSE]
            ELSE LET overlay == [none |-> FALSE, text |-> text, size |-> video_size]
                 IN [raised |-> FALSE, overlay |-> overlay,
                     cache |-> cache @@ (cache_key :> overlay),
                     fonts |-> fonts \cup {FontSize(video_size)},
                     rendered |-> TRUE]

\* -------------------------------------------------------------- zoom frames
\* Mutant: the zoom running from zoom_end down to zoom_start.
ZoomFactorReversed(fn, total_frames) ==
  IF total_frames > 0
    THEN <<zoom_end_pct * total_frames - (zoom_end_pct - zoom_start_pct) * fn,
           100 * total_frames>>
    ELSE <<zoom_end_pct, 100>>

\* zoom_start + (zoom_end - zoom_start) * frame_num / total_frames, as the
\* fraction <<numerator, denominator>>.
ZoomFactor(fn, total_frames) ==
  IF total_frames > 0
    THEN <<zoom_start_pct * total_frames + (zoom_end_pct - zoom_start_pct) * fn,
           100 * total_frames>>
    ELSE <<zoom_start_pct, 100>>

\* Mutant: the image used as cv2.imread gave it, without the zeros.
LoadImageNoFallback(disk, image_path) == disk[image_path]

\* cv2.imread: None for a file that cannot be decoded, replaced by zeros.
LoadImage(disk, image_path) ==
  IF PathExistsImage(disk, image_path) /\ disk[image_path] # "corrupt"
    THEN disk[image_path] ELSE "blank"

\* Mutant: the sampling started at the stride, range(rate, total_frames, rate).
SampleKeysFromStride(total_frames, rate) == {k \in rate..(total_frames - 1) : k % rate = 0}

\* range(0, total_frames, rate)
SampleKeysAt(total_frames, rate) == {k \in 0..(total_frames - 1) : k % rate = 0}

SampleKeys(total_frames) == SampleKeysAt(total_frames, zoom_sample_rate)

\* Mutant: the image resized to canvas / zoom_factor, smaller than the canvas.
apply_zoom_effect_shrinking(zoom_factor, target_size) ==
  LET target_w == target_size[1]
      target_h == target_size[2]
      new_w == IntTrunc(target_w * zoom_factor[2], zoom_factor[1])
      new_h == IntTrunc(target_h * zoom_factor[2], zoom_factor[1])
      start_x == Max(0, (new_w - target_w) \div 2)
      start_y == Max(0, (new_h - target_h) \div 2)
      end_x == Min(start_x + target_w, new_w)
      end_y == Min(start_y + target_h, new_h)
  IN IF zoom_factor[1] = zoom_factor[2]
       THEN [direct |-> TRUE, resized |-> target_size, crop |-> <<0, 0, target_w, target_h>>,
             size |-> target_size]
       ELSE [direct |-> FALSE, resized |-> <<new_w, new_h>>,
             crop |-> <<start_x, start_y, start_x + target_w, start_y + target_h>>,
             size |-> <<Max(0, end_x - start_x), Max(0, end_y - start_y)>>]

\* apply_zoom_effect_fast on a zoom factor <<numerator, denominator>>: whether
\* the image is only resized to the canvas, the size it is resized to, the
\* crop window asked for <<x0, y0, x1, y1>>, and the size of the array the
\* slice gives (a slice stops at the edge of the array).
apply_zoom_effect_fast(zoom_factor, target_size) ==
  LET target_w == target_size[1]
      target_h == target_size[2]
      new_w == IntTrunc(target_w * zoom_factor[1], zoom_factor[2])
      new_h == IntTrunc(target_h * zoom_factor[1], zoom_factor[2])
      start_x == Max(0, (new_w - target_w) \div 2)
      start_y == Max(0, (new_h - target_h) \div 2)
      end_x == Min(start_x + target_w, new_w)
      end_y == Min(start_y + target_h, new_h)
  IN IF zoom_factor[1] = zoom_factor[2]
       THEN [direct |-> TRUE, resized |-> target_size, crop |-> <<0, 0, target_w, target_h>>,
             size |-> target_size]
       ELSE [direct |-> FALSE, resized |-> <<new_w, new_h>>,
             crop |-> <<start_x, start_y, start_x + target_w, start_y + target_h>>,
             size |-> <<Max(0, end_x - start_x), Max(0, end_y - start_y)>>]

ZoomKey(image_path, total_frames, video_size) ==
  <<image_path, total_frames, video_size[1], video_size[2]>>

\* The dictionary the loop over range(0, total_frames, rate) builds: one
\* fresh buffer per sampled index.
BuildZoomFramesAt(img, total_frames, rate) ==
  [fn \in SampleKeysAt(total_frames, rate) |->
     [img |-> img, zoom |-> ZoomFactor(fn, total_frames), layers |-> <<>>]]

\* Mutant: every eighth frame materialized, twice the stride of the lookup.
BuildZoomFramesCoarse(img, total_frames) ==
  BuildZoomFramesAt(img, total_frames, 2 * zoom_sample_rate)

\* The dictionary built on a cache miss, with the stride of the code.
BuildZoomFrames(img, total_frames) == BuildZoomFramesAt(img, total_frames, zoom_sample_rate)

\* The cache after the call; the dictionary returned is cache[ZoomKey(..)],
\* the very object the cache holds.
precalculate_zoom_frames(image_path, total_frames, video_size, cache, disk) ==
  LET cache_key == ZoomKey(image_path, total_frames, video_size)
  IN IF cache_key \in DOMAIN cache THEN cache
     ELSE cache @@ (cache_key :> BuildZoomFrames(LoadImage(disk, image_path), total_frames))

Abs(x) == IF x < 0 THEN -x ELSE x

\* min() over no keys raises ValueError.
lookup_raises(zoom_frames, fn, rate) ==
  (fn \div rate) * rate \notin DOMAIN zoom_frames /\ DOMAIN zoom_frames = {}

\* The key of the buffer get_closest_zoom_frame returns.
get_closest_zoom_frame(zoom_frames, fn, rate) ==
  LET closest_key == (fn \div rate) * rate
  IN IF closest_key \in DOMAIN zoom_frames THEN closest_key
     ELSE CHOOSE x \in DOMAIN zoom_frames :
            \A y \in DOMAIN zoom_frames :
              \/ Abs(x - fn) < Abs(y - fn)
              \/ (Abs(x - fn) = Abs(y - fn) /\ x <= y)

\* background[:, :, c] = alpha*overlay + (1-alpha)*background, in place: the
\* buffer afterwards.
fast_composite(background, overlay) ==
  [background EXCEPT !.layers = Append(@, overlay.text)]


\* ------------------------------------------------------------------- state
NoFiles == [f \in FileNames |-> "absent"]

\* No function is being applied on its own.
NoCall == [f |-> "none"]
NoValue == [pending |-> TRUE]

NoUnit == call = NoCall /\ value = NoValue

RunLocalsInit ==
  /\ max_workers = 0
  /\ task = <<>>
  /\ results = <<>>
  /\ doneOrder = <<>>
  /\ parallel_results = <<>>
  /\ processed_scenes = <<>>
  /\ i = 0
  /\ frame_num = 0
  /\ writerOpen = FALSE
  /\ written = <<>>
  /\ temp_audio_files = <<>>
  /\ muxExit = "notrun"

\* A list file an earlier run left behind when its concatenation timed out.
StaleManifest == <<"s2.wav", "s1.wav">>

\* The app session before a click on Generate: no video yet, or the video of
\* an earlier successful run on display; possibly a stale list file, which
\* cleanup_files of app.py never removes.
SessionInit ==
  /\ imgDisk = ImageDisk0
  /\ \E prev \in BOOLEAN, stale \in BOOLEAN :
       /\ video_path = (IF prev THEN Output ELSE "")
       /\ files = [NoFiles EXCEPT ![Output] = IF prev THEN "full" ELSE "absent",
                                  ![ListFile] = IF stale THEN "full" ELSE "absent"]
       /\ manifest = (IF stale THEN StaleManifest ELSE <<>>)
  /\ pc = "idle"
  /\ ret = "none"
  /\ calls = 0
  /\ log = {}
  /\ font_cache = {}
  /\ text_overlay_cache = EmptyCache
  /\ zoom_frame_cache = EmptyCache
  /\ RunLocalsInit
  /\ NoUnit

Init == multimedia_data \in SceneLists /\ SessionInit

Goto(p) == pc' = p /\ ret' = ret /\ log' = log

\* The call ends: val is what the caller gets ("raised": an exception), msgs
\* the diagnostics printed on the way out.
Return(val, msgs) == pc' = "returned" /\ ret' = val /\ log' = log \cup msgs

\* ---------------------------------------------------------------- the app
\* app.py cleanup_files: temp_*.* and *.mp4 are removed from the working
\* directory (audio_list.txt matches neither pattern).
cleanup_files(fs) ==
  [f \in FileNames |-> IF f \in {TempVideo, FinalAudio, Output} THEN "absent" ELSE fs[f]]

\* The Generate handler up to the call of create_video_from_json: cleanup,
\* reset of the session's video path, the upstream stages (which may raise
\* into the handler's except clause), then a new Video object.
AppGenerate(upstream_ok) ==
  /\ pc = "idle"
  /\ files' = cleanup_files(files)
  /\ video_path' = ""
  /\ font_cache' = {}
  /\ text_overlay_cache' = EmptyCache
  /\ zoom_frame_cache' = EmptyCache
  /\ pc' = IF upstream_ok THEN "load" ELSE "done"
  /\ calls' = IF upstream_ok THEN calls + 1 ELSE calls
  /\ UNCHANGED <<unitVars, inputVars, manifest, ret, log, poolVars, processed_scenes, loopVars,
                 muxExit>>

\* What the handler stores once create_video_from_json is back: the path on
\* success, nothing otherwise (an exception lands in the except clause).
\* Mutant: the path stored whatever create_video_from_json returned.
AppVideoPathAlways(success, old) == Output

AppVideoPath(success, old) == IF success = "True" THEN Output ELSE old

AppFinish ==
  /\ pc = "returned"
  /\ video_path' = AppVideoPath(ret, video_path)
  /\ pc' = "done"
  /\ UNCHANGED <<unitVars, inputVars, fsVars, calls, ret, log, poolVars, processed_scenes, cacheVars,
                 loopVars, muxExit>>

\* ------------------------------------------------ create_video_from_json
\* open + json.load + len: "caught" is FileNotFoundError or JSONDecodeError,
\* "uncaught" any other exception of the try block (PermissionError of open,
\* TypeError of len() on a JSON null or number).
LoadJson(outcome) ==
  /\ pc = "load"
  /\ CASE outcome = "ok" -> Goto("check_ffmpeg")
       [] outcome = "caught" -> Return("False", {<<"json_error">>})
       [] OTHER -> Return("raised", {})
  /\ UNCHANGED <<unitVars, inputVars, fsVars, callerVars, poolVars, processed_scenes,
                 cacheVars, loopVars, muxExit>>

check_ffmpeg(available) ==
  /\ pc = "check_ffmpeg"
  /\ IF available THEN Goto("preprocess") ELSE Return("False", {<<"ffmpeg_unavailable">>})
  /\ UNCHANGED <<unitVars, inputVars, fsVars, callerVars, poolVars, processed_scenes,
                 cacheVars, loopVars, muxExit>>

\* ------------------------------------------------ process_scenes_parallel
Indices == 1..Len(multimedia_data)
Running == {k \in DOMAIN task : task[k] = "running"}
Queued == {k \in DOMAIN task : task[k] = "queued"}

\* preprocess_all_scenes builds scenes_data and process_scenes_parallel
\* submits every item to a pool of max_workers processes.
SubmitAll(cpu_count) ==
  /\ pc = "preprocess"
  /\ max_workers' = PoolSize(cpu_count)
  /\ task' = [k \in Indices |-> "queued"]
  /\ results' = [k \in Indices |-> NoResult]
  /\ doneOrder' = <<>>
  /\ Goto("pool")
  /\ UNCHANGED <<unitVars, inputVars, fsVars, callerVars, parallel_results,
                 processed_scenes, cacheVars, loopVars, muxExit>>

\* A free worker takes the oldest queued item.
WorkerStart ==
  /\ pc = "pool"
  /\ Queued # {}
  /\ Cardinality(Running) < max_workers
  /\ LET k == CHOOSE q \in Queued : \A r \in Queued : q <= r
     IN task' = [task EXCEPT ![k] = "running"]
  /\ UNCHANGED <<unitVars, inputVars, fsVars, callerVars, pc, ret, log, max_workers, results,
                 doneOrder, parallel_results, processed_scenes, cacheVars,
                 loopVars, muxExit>>

\* Any running worker may be the next to finish.
WorkerFinish(k) ==
  /\ pc = "pool"
  /\ k \in Running
  /\ task' = [task EXCEPT ![k] = "done"]
  /\ results' = [results EXCEPT
                   ![k] = process_single_scene_worker(multimedia_data[k], Fps, imgDisk)]
  /\ doneOrder' = Append(doneOrder, k)
  /\ UNCHANGED <<unitVars, inputVars, fsVars, callerVars, pc, ret, log, max_workers,
                 parallel_results, processed_scenes, cacheVars, loopVars, muxExit>>

\* A worker process dies: executor.map raises BrokenProcessPool, which
\* nothing between here and the caller catches.
PoolBroken ==
  /\ pc = "pool"
  /\ Running # {}
  /\ Return("raised", {})
  /\ UNCHANGED <<unitVars, inputVars, fsVars, callerVars, poolVars, processed_scenes,
                 cacheVars, loopVars, muxExit>>

\* The pool is drained: the None results are filtered out; an empty list
\* ends preprocess_all_scenes and the run ("No valid scenes to process").
Collect ==
  /\ pc = "pool"
  /\ \A k \in DOMAIN task : task[k] = "done"
  /\ parallel_results' = CollectResults(results, doneOrder)
  /\ IF parallel_results' = <<>>
       THEN Return("False", {<<"no_valid_scenes">>}) /\ i' = i
       ELSE Goto("heavy") /\ i' = 1
  /\ UNCHANGED <<unitVars, inputVars, fsVars, callerVars, max_workers, task, results,
                 doneOrder, processed_scenes, cacheVars, frame_num, writerOpen,
                 written, temp_audio_files, muxExit>>

\* ---------------------------------------- preprocess_all_scenes, the loop
\* One iteration: overlay, then zoom frames, then the append; an exception
\* of either call is caught and the scene left out.
PreprocessScene ==
  /\ pc = "heavy"
  /\ i <= Len(parallel_results)
  /\ LET scene_result == parallel_results[i]
         o == create_text_overlay_once(scene_result.text, VideoSize,
                                       text_overlay_cache, font_cache)
     IN IF o.raised
          THEN /\ log' = log \cup {<<"preprocess_error">>}
               /\ UNCHANGED <<processed_scenes, cacheVars>>
          ELSE /\ log' = log
               /\ text_overlay_cache' = o.cache
               /\ font_cache' = o.fonts
               /\ zoom_frame_cache' =
                    precalculate_zoom_frames(scene_result.image_path,
                                             scene_result.total_frames, VideoSize,
                                             zoom_frame_cache, imgDisk)
               /\ processed_scenes' = Append(processed_scenes,
                    [audio_path |-> scene_result.audio_path,
                     text_overlay |-> o.overlay,
                     zoom_frames |-> ZoomKey(scene_result.image_path,
                                             scene_result.total_frames, VideoSize),
                     total_frames |-> scene_result.total_frames,
                     duration |-> scene_result.audio_duration])
  /\ i' = i + 1
  /\ UNCHANGED <<unitVars, inputVars, fsVars, callerVars, pc, ret, poolVars, frame_num,
                 writerOpen, written, temp_audio_files, muxExit>>

\* The loop is over: create_video_from_json stops on an empty list and
\* otherwise enters create_video_from_preprocessed.
PreprocessDone ==
  /\ pc = "heavy"
  /\ i > Len(parallel_results)
  /\ IF processed_scenes = <<>>
       THEN Return("False", {<<"no_valid_scenes">>})
       ELSE Goto("open")
  /\ UNCHANGED <<unitVars, inputVars, fsVars, callerVars, poolVars, processed_scenes,
                 cacheVars, loopVars, muxExit>>


\* ------------------------------------------ create_video_from_preprocessed
\* cv2.VideoWriter(temp_video, ...): opened, the file exists from here on.
OpenWriter(opened) ==
  /\ pc = "open"
  /\ IF opened
       THEN /\ writerOpen' = TRUE
            /\ files' = [files EXCEPT ![TempVideo] = "partial"]
            /\ written' = <<>>
            /\ temp_audio_files' = <<>>
            /\ i' = 1
            /\ frame_num' = 0
            /\ Goto("write")
       ELSE /\ Return("False", {<<"writer_failed">>})
            /\ UNCHANGED <<files, loopVars>>
  /\ UNCHANGED <<unitVars, inputVars, manifest, callerVars, poolVars, processed_scenes,
                 cacheVars, muxExit>>

InScene == pc = "write" /\ i <= Len(processed_scenes)

\* The frame indices the inner loop still has to emit for a scene.
\* Mutant: the inner loop one frame short, range(total_frames - 1).
FramesLeftShort(scene, fn) == fn + 1 < scene.total_frames

FramesLeft(scene, fn) == fn < scene.total_frames

\* One pass of the inner loop: the nearest precalculated buffer, blended in
\* place with the scene's overlay when there is one, handed to the writer.
WriteFrame ==
  /\ InScene
  /\ FramesLeft(processed_scenes[i], frame_num)
  /\ LET scene == processed_scenes[i]
         zoom_frames == zoom_frame_cache[scene.zoom_frames]
         key == get_closest_zoom_frame(zoom_frames, frame_num, sample_rate)
         closest_zoom_frame == zoom_frames[key]
         final_frame == IF scene.text_overlay = NoOverlay
                          THEN closest_zoom_frame
                          ELSE fast_composite(closest_zoom_frame, scene.text_overlay)
     IN /\ zoom_frame_cache' =
             [zoom_frame_cache EXCEPT ![scene.zoom_frames][key] = final_frame]
        /\ written' = Append(written,
             [i |-> i, frame_num |-> frame_num, sample |-> key,
              img |-> final_frame.img, zoom |-> final_frame.zoom,
              layers |-> final_frame.layers])
  /\ frame_num' = frame_num + 1
  /\ UNCHANGED <<unitVars, inputVars, fsVars, callerVars, pc, ret, log, poolVars,
                 processed_scenes, font_cache, text_overlay_cache, i, writerOpen,
                 temp_audio_files, muxExit>>

\* video_writer.write (or the blend before it) raises: nothing in
\* create_video_from_preprocessed or its callers catches it.
WriteRaises ==
  /\ InScene
  /\ FramesLeft(processed_scenes[i], frame_num)
  /\ Return("raised", {})
  /\ UNCHANGED <<unitVars, inputVars, fsVars, callerVars, poolVars, processed_scenes,
                 cacheVars, loopVars, muxExit>>

\* Mutant: the audio path put at the front of the list.
EndSceneAudioInFront ==
  /\ pc = "write" /\ i <= Len(processed_scenes)
  /\ frame_num >= processed_scenes[i].total_frames
  /\ temp_audio_files' = <<processed_scenes[i].audio_path>> \o temp_audio_files
  /\ i' = i + 1
  /\ frame_num' = 0
  /\ UNCHANGED <<unitVars, inputVars, fsVars, callerVars, pc, ret, log, poolVars,
                 processed_scenes, cacheVars, writerOpen, written, muxExit>>

\* The inner loop is over: the scene's audio path joins the list.
EndScene ==
  /\ InScene
  /\ ~FramesLeft(processed_scenes[i], frame_num)
  /\ temp_audio_files' = Append(temp_audio_files, processed_scenes[i].audio_path)
  /\ i' = i + 1
  /\ frame_num' = 0
  /\ UNCHANGED <<unitVars, inputVars, fsVars, callerVars, pc, ret, log, poolVars,
                 processed_scenes, cacheVars, writerOpen, written, muxExit>>

\* video_writer.release(), then finalize_video is entered.
Release ==
  /\ pc = "write"
  /\ i > Len(processed_scenes)
  /\ writerOpen' = FALSE
  /\ files' = [files EXCEPT ![TempVideo] = "full"]
  /\ Goto("combine")
  /\ UNCHANGED <<unitVars, inputVars, manifest, callerVars, poolVars, processed_scenes,
                 cacheVars, i, frame_num, written, temp_audio_files, muxExit>>

\* ------------------------------------------------------------ finalize_video
ExitCodes == {"0", "nonzero", "timeout"}

\* What ffmpeg leaves at its target: nothing new, or a file that is complete
\* only when it exited with 0.
AfterTool(old, exit, wrote) ==
  IF ~wrote THEN old ELSE IF exit = "0" THEN "full" ELSE "partial"

Reverse(s) == [k \in 1..Len(s) |-> s[Len(s) + 1 - k]]

\* Mutant: the manifest lists the audio paths last scene first.
combine_audio_files_reversed(audio_files, fs, mf, exit, wrote, rm_ok) ==
  LET single == Len(audio_files) = 1
      fs1 == IF single THEN fs ELSE [fs EXCEPT ![ListFile] = "full"]
      fs2 == [fs1 EXCEPT ![FinalAudio] = AfterTool(@, exit, wrote)]
      removed == ~single /\ exit # "timeout" /\ rm_ok
      fs3 == IF removed THEN [fs2 EXCEPT ![ListFile] = "absent"] ELSE fs2
      raised == \/ exit = "timeout"
                \/ (~single /\ ~rm_ok)
                \/ (exit = "0" /\ fs3[FinalAudio] = "absent")
  IN [ok |-> ~raised /\ exit = "0", files |-> fs3,
      manifest |-> IF single THEN mf ELSE Reverse(audio_files),
      cmd |-> IF single THEN [op |-> "transcode", input |-> audio_files[1], timeout |-> 60]
                        ELSE [op |-> "concat", input |-> ListFile, timeout |-> 120]]

\* combine_audio_files.  exit: how subprocess.run ended; wrote: whether the
\* tool produced its output file; rm_ok: whether os.remove of the list file
\* succeeded.  Every exception is caught and gives False.
\* [ok, files, manifest, cmd]: cmd is the one ffmpeg command that is run.
combine_audio_files(audio_files, fs, mf, exit, wrote, rm_ok) ==
  LET single == Len(audio_files) = 1
      fs1 == IF single THEN fs ELSE [fs EXCEPT ![ListFile] = "full"]
      mf1 == IF single THEN mf ELSE audio_files
      fs2 == [fs1 EXCEPT ![FinalAudio] = AfterTool(@, exit, wrote)]
      removed == ~single /\ exit # "timeout" /\ rm_ok
      fs3 == IF removed THEN [fs2 EXCEPT ![ListFile] = "absent"] ELSE fs2
      raised == \/ exit = "timeout"
                \/ (~single /\ ~rm_ok)
                \/ (exit = "0" /\ fs3[FinalAudio] = "absent")
      cmd == IF single THEN [op |-> "transcode", input |-> audio_files[1], timeout |-> 60]
                       ELSE [op |-> "concat", input |-> ListFile, timeout |-> 120]
  IN [ok |-> ~raised /\ exit = "0", files |-> fs3, manifest |-> mf1, cmd |-> cmd]

\* Mutant: finalize_video going on to the mux after a failed audio stage.
CombineAudioGoesOn(exit, wrote, rm_ok) ==
  /\ pc = "combine"
  /\ temp_audio_files # <<>>
  /\ LET r == combine_audio_files(temp_audio_files, files, manifest, exit, wrote, rm_ok)
     IN /\ files' = r.files
        /\ manifest' = r.manifest
        /\ log' = IF r.ok THEN log ELSE log \cup {<<"audio_failed">>}
  /\ pc' = "merge"
  /\ ret' = ret
  /\ UNCHANGED <<unitVars, inputVars, callerVars, poolVars, processed_scenes, cacheVars,
                 loopVars, muxExit>>

CombineAudio(exit, wrote, rm_ok) ==
  /\ pc = "combine"
  /\ temp_audio_files # <<>>
  /\ LET r == combine_audio_files(temp_audio_files, files, manifest, exit, wrote, rm_ok)
     IN /\ files' = r.files
        /\ manifest' = r.manifest
        /\ IF r.ok THEN Goto("merge") ELSE Return("False", {<<"audio_failed">>})
  /\ UNCHANGED <<unitVars, inputVars, callerVars, poolVars, processed_scenes, cacheVars,
                 loopVars, muxExit>>

\* merge_video_audio: True exactly on exit status 0.  out is what the mux
\* left at the target: "keep" (nothing written), "empty", "partial", "full".
merge_video_audio(exit) == exit = "0"

MuxOutputs(exit) == IF exit = "0" THEN {"keep", "empty", "full"} ELSE {"keep", "partial"}

MergeVideoAudio(exit, out) ==
  /\ pc = "merge"
  /\ out \in MuxOutputs(exit)
  /\ muxExit' = exit
  /\ files' = [files EXCEPT ![Output] = IF out = "keep" THEN @ ELSE out]
  /\ IF merge_video_audio(exit) THEN Goto("final") ELSE Return("False", {<<"merge_failed">>})
  /\ UNCHANGED <<unitVars, inputVars, manifest, callerVars, poolVars, processed_scenes,
                 cacheVars, loopVars>>

\* cleanup_temp_files: each existing file is removed unless os.remove raises,
\* which is logged and goes no further.  stuck is the set of files whose
\* removal raises.
\* Mutant: only the first file of the list is removed.
cleanup_first_only(file_list, fs, stuck) ==
  [f \in FileNames |->
     IF f = TempVideo /\ f \in file_list /\ f \notin stuck THEN "absent" ELSE fs[f]]

cleanup_temp_files(file_list, fs, stuck) ==
  [f \in FileNames |-> IF f \in file_list /\ f \notin stuck THEN "absent" ELSE fs[f]]

\* The test finalize_video makes before it reports success.
OutputAccepted(fs) == fs[Output] # "absent"

\* The tail of finalize_video: the output is looked for, the temporaries are
\* removed, True is returned.
Finalize(stuck) ==
  /\ pc = "final"
  /\ IF OutputAccepted(files)
       THEN /\ files' = cleanup_temp_files({TempVideo, FinalAudio}, files, stuck)
            /\ Return("True", {<<"success">>} \cup
                 {<<"could_not_remove", f>> : f \in {g \in stuck : files[g] # "absent"}})
       ELSE /\ stuck = {}
            /\ files' = files
            /\ Return("False", {})
  /\ UNCHANGED <<unitVars, inputVars, manifest, callerVars, poolVars, processed_scenes,
                 cacheVars, loopVars, muxExit>>

\* ------------------------------------------- a caller that keeps its Video
\* The scene lists of the caller that calls create_video_from_json more than
\* once on one Video object.
ReuseItems ==
  { Scene("a.png", "s1.wav", <<"x">>),
    Scene("b.png", "s1.wav", <<>>),
    Scene("a.png", "gone.wav", <<>>) }

ReuseLists == UNION { [1..n -> ReuseItems] : n \in 0..MaxScenes }

InitReuse ==
  /\ multimedia_data \in ReuseLists
  /\ imgDisk = ImageDisk0
  /\ video_path = ""
  /\ files = NoFiles
  /\ manifest = <<>>
  /\ pc = "idle"
  /\ ret = "none"
  /\ calls = 0
  /\ log = {}
  /\ font_cache = {}
  /\ text_overlay_cache = EmptyCache
  /\ zoom_frame_cache = EmptyCache
  /\ RunLocalsInit
  /\ NoUnit

\* video.create_video_from_json(json_path) on the Video object built once:
\* the locals of the call start afresh, the object's three caches stay.
DirectCall ==
  /\ pc = "idle"
  /\ calls < MaxCalls
  /\ calls' = calls + 1
  /\ pc' = "load"
  /\ ret' = "none"
  /\ log' = {}
  /\ max_workers' = 0
  /\ task' = <<>>
  /\ results' = <<>>
  /\ doneOrder' = <<>>
  /\ parallel_results' = <<>>
  /\ processed_scenes' = <<>>
  /\ i' = 0
  /\ frame_num' = 0
  /\ writerOpen' = FALSE
  /\ written' = <<>>
  /\ temp_audio_files' = <<>>
  /\ muxExit' = "notrun"
  /\ UNCHANGED <<unitVars, inputVars, fsVars, video_path, cacheVars>>

DirectReturn ==
  /\ pc = "returned"
  /\ pc' = "idle"
  /\ UNCHANGED <<unitVars, inputVars, fsVars, callerVars, ret, log, poolVars, processed_scenes,
                 cacheVars, loopVars, muxExit>>

\* Between two calls an image file is replaced under the same path.
Edited(content) == IF content = "A" THEN "A2" ELSE "B2"

ModifyImage(p) ==
  /\ pc = "idle"
  /\ calls > 0
  /\ \E k \in DOMAIN multimedia_data : multimedia_data[k].image_path = p
  /\ imgDisk[p] \in {"A", "B"}
  /\ imgDisk' = [imgDisk EXCEPT ![p] = Edited(@)]
  /\ UNCHANGED <<unitVars, multimedia_data, fsVars, callerVars, pc, ret, log, poolVars,
                 processed_scenes, cacheVars, loopVars, muxExit>>

\* --------------------------------------------------------- specifications
Pipeline ==
  \/ \E outcome \in {"ok", "caught", "uncaught"} : LoadJson(outcome)
  \/ \E available \in BOOLEAN : check_ffmpeg(available)
  \/ \E cpu_count \in CpuCounts : SubmitAll(cpu_count)
  \/ WorkerStart
  \/ \E k \in DOMAIN task : WorkerFinish(k)
  \/ PoolBroken
  \/ Collect
  \/ PreprocessScene
  \/ PreprocessDone
  \/ \E opened \in BOOLEAN : OpenWriter(opened)
  \/ WriteFrame
  \/ WriteRaises
  \/ EndScene
  \/ Release
  \/ \E exit \in ExitCodes, wrote \in BOOLEAN, rm_ok \in BOOLEAN :
       CombineAudio(exit, wrote, rm_ok)
  \/ \E exit \in ExitCodes, out \in {"keep", "empty", "partial", "full"} :
       MergeVideoAudio(exit, out)
  \/ \E stuck \in SUBSET {TempVideo, FinalAudio} : Finalize(stuck)

Next ==
  \/ \E upstream_ok \in BOOLEAN : AppGenerate(upstream_ok)
  \/ Pipeline
  \/ AppFinish

Spec == Init /\ [][Next]_vars

NextReuse ==
  \/ DirectCall
  \/ Pipeline
  \/ DirectReturn
  \/ \E p \in {"a.png", "b.png"} : ModifyImage(p)

SpecReuse == InitReuse /\ [][NextReuse]_vars

\* ------------------------------------------------ a story of three scenes
\* The app session run on scenes whose narrations last 2 s, 3 s and 1 s.
Story ==
  << Scene("a.png", "two.wav", <<"x">>),
     Scene("b.png", "three.wav", <<>>),
     Scene("a.png", "one.wav", <<"x">>) >>

InitStory == multimedia_data = Story /\ SessionInit

SpecStory == InitStory /\ [][Next]_vars


\* ------------------------------------ the zoom frames of one scene, alone
\* precalculate_zoom_frames and get_closest_zoom_frame applied on their own
\* to a scene of total_frames frames: the set is built with the stride
\* build_rate, then frame 0, 1, ... is looked up with the stride rate.
MaxFrames == 10
MaxStride == 5

\* Everything of the pipeline at rest.
PipelineAtRest ==
  /\ multimedia_data = <<>>
  /\ imgDisk = ImageDisk0
  /\ video_path = ""
  /\ files = NoFiles
  /\ manifest = <<>>
  /\ pc = "idle"
  /\ ret = "none"
  /\ calls = 0
  /\ log = {}
  /\ font_cache = {}
  /\ text_overlay_cache = EmptyCache
  /\ zoom_frame_cache = EmptyCache

InitZoom ==
  /\ PipelineAtRest
  /\ RunLocalsInit
  /\ \E t \in 0..MaxFrames, b \in 1..MaxStride, r \in 1..MaxStride :
       call = [f |-> "zoom", total_frames |-> t, build_rate |-> b, rate |-> r]
  /\ value = NoValue

ZoomBuilt == call.f = "zoom" /\ ~value.pending

ZoomBuild ==
  /\ call.f = "zoom"
  /\ value.pending
  /\ value' = [pending |-> FALSE,
               zoom_frames |-> BuildZoomFramesAt("A", call.total_frames, call.build_rate),
               picked |-> <<>>]
  /\ UNCHANGED <<pipeVars, call>>

\* The next frame index of the scene is looked up.
ZoomLookup ==
  /\ ZoomBuilt
  /\ Len(value.picked) < call.total_frames
  /\ LET fn == Len(value.picked)
         got == IF lookup_raises(value.zoom_frames, fn, call.rate)
                  THEN [raised |-> TRUE]
                  ELSE LET key == get_closest_zoom_frame(value.zoom_frames, fn, call.rate)
                       IN [raised |-> FALSE, key |-> key,
                           zoom |-> value.zoom_frames[key].zoom]
     IN value' = [value EXCEPT !.picked = Append(@, got)]
  /\ UNCHANGED <<pipeVars, call>>

NextZoom == ZoomBuild \/ ZoomLookup

SpecZoom == InitZoom /\ [][NextZoom]_vars

\* --------------------------------------------------- one zoom level, alone
\* apply_zoom_effect_fast applied to the zoom factor of frame frame_num of a
\* scene of total_frames frames (frame_num = total_frames gives zoom_end), on
\* a canvas of every small size and of some video sizes.
MaxCanvas == 8

CanvasSizes ==
  ((1..MaxCanvas) \X (1..MaxCanvas))
    \cup {VideoSize, <<1280, 720>>, <<640, 360>>, <<20, 14>>, <<21, 15>>}

InitZoomEffect ==
  /\ PipelineAtRest
  /\ RunLocalsInit
  /\ \E t \in 0..MaxFrames, size \in CanvasSizes :
       \E fn \in 0..t :
         call = [f |-> "zoom_effect", total_frames |-> t, frame_num |-> fn,
                 target_size |-> size]
  /\ value = NoValue

ZoomEffectApply ==
  /\ call.f = "zoom_effect"
  /\ value.pending
  /\ value' = [pending |-> FALSE,
               frame |-> apply_zoom_effect_fast(ZoomFactor(call.frame_num, call.total_frames),
                                                call.target_size)]
  /\ UNCHANGED <<pipeVars, call>>

NextZoomEffect == ZoomEffectApply

SpecZoomEffect == InitZoomEffect /\ [][NextZoomEffect]_vars

\* ----------------------------------------------------------- wrap_text, alone
MaxTextLen == 6
MaxWidth == 4

\* The characters of the captions wrapped here: a narrow and a wide letter
\* and the space.
WrapAlphabet == {"i", "W", " "}
WrapTexts == UNION { [1..n -> WrapAlphabet] : n \in 0..MaxTextLen }

\* get_cached_font yields a TrueType font, or the built-in bitmap font, for
\* which textbbox raises ValueError.
FontKinds == {"truetype", "bitmap"}

\* textbbox((0, 0), line, font)[2]: the advances of the characters added up.
CharWidth(c) == IF c = "W" THEN 2 ELSE 1

RECURSIVE Width(_)
Width(line) == IF line = <<>> THEN 0 ELSE CharWidth(Head(line)) + Width(Tail(line))

\* str.split(): the maximal runs of non-blank characters.
RECURSIVE SplitWords(_, _)
SplitWords(t, cur) ==
  IF t = <<>> THEN (IF cur = <<>> THEN <<>> ELSE <<cur>>)
  ELSE IF IsSpace(Head(t))
    THEN (IF cur = <<>> THEN <<>> ELSE <<cur>>) \o SplitWords(Tail(t), <<>>)
  ELSE SplitWords(Tail(t), Append(cur, Head(t)))

\* Mutant: the parts put together with nothing between them.
RECURSIVE JoinNoSep(_, _)
JoinNoSep(parts, sep) ==
  IF parts = <<>> THEN <<>> ELSE parts[1] \o JoinNoSep(Tail(parts), sep)

\* sep.join(parts)
RECURSIVE Join(_, _)
Join(parts, sep) ==
  IF parts = <<>> THEN <<>>
  ELSE IF Len(parts) = 1 THEN parts[1]
  ELSE parts[1] \o sep \o Join(Tail(parts), sep)

\* Mutant: the word measured on its own, not the line it would extend.
test_line_word_only(current_line, word) == word

test_line(current_line, word) == Join(Append(current_line, word), <<" ">>)

\* The loop over the words and the flush after it: the list of lines.
RECURSIVE WrapLoop(_, _, _, _)
WrapLoop(words, current_line, lines, max_width) ==
  IF words = <<>>
    THEN (IF current_line # <<>> THEN Append(lines, Join(current_line, <<" ">>)) ELSE lines)
  ELSE LET word == Head(words)
       IN IF Width(test_line(current_line, word)) <= max_width
            THEN WrapLoop(Tail(words), Append(current_line, word), lines, max_width)
          ELSE IF current_line # <<>>
            THEN WrapLoop(Tail(words), <<word>>,
                          Append(lines, Join(current_line, <<" ">>)), max_width)
          ELSE WrapLoop(Tail(words), <<>>, Append(lines, word), max_width)

\* The string returned: the lines joined by newlines, or, when measuring the
\* first word raised, the text as it came.
wrap_text(text, font, max_width) ==
  LET words == SplitWords(text, <<>>)
  IN IF font = "bitmap" /\ words # <<>> THEN text
     ELSE Join(WrapLoop(words, <<>>, <<>>, max_width), <<"\n">>)

InitWrap ==
  /\ PipelineAtRest
  /\ RunLocalsInit
  /\ \E t \in WrapTexts, w \in 1..MaxWidth, font \in FontKinds :
       call = [f |-> "wrap", text |-> t, max_width |-> w, font |-> font]
  /\ value = NoValue

WrapApply ==
  /\ call.f = "wrap"
  /\ value.pending
  /\ value' = [pending |-> FALSE, text |-> wrap_text(call.text, call.font, call.max_width)]
  /\ UNCHANGED <<pipeVars, call>>

NextWrap == WrapApply

SpecWrap == InitWrap /\ [][NextWrap]_vars

\* ------------------------------------------------- the probe worker, alone
\* process_single_scene_worker applied on its own to one scene descriptor at
\* a frame rate of 1..MaxFps.
MaxFps == 30

WorkerItems ==
  { Scene("a.png", aud, <<>>) : aud \in DOMAIN AudioDisk }
    \cup { Scene("gone.png", "s1.wav", <<>>), Scene("", "s1.wav", <<>>),
           Scene("a.png", "", <<>>), Scene("corrupt.png", "s2.wav", <<"x">>) }

InitWorker ==
  /\ PipelineAtRest
  /\ RunLocalsInit
  /\ \E s \in WorkerItems, fps \in 1..MaxFps :
       call = [f |-> "worker", scene_item |-> s, fps |-> fps]
  /\ value = NoValue

WorkerApply ==
  /\ call.f = "worker"
  /\ value.pending
  /\ value' = [pending |-> FALSE,
               result |-> process_single_scene_worker(call.scene_item, call.fps, imgDisk)]
  /\ UNCHANGED <<pipeVars, call>>

NextWorker == WorkerApply

SpecWorker == InitWorker /\ [][NextWorker]_vars

\* ---------------------------------------------- the overlay cache, alone
\* create_text_overlay_once applied to 1..MaxCaptions requests in a row on one
\* Video object, as preprocess_all_scenes does for the scenes of a run.
MaxCaptions == 3

OverlaySizes == {VideoSize, <<1280, 720>>}

OverlayTexts == {<<>>, <<" ">>, <<"x">>, <<"x", " ">>, NoneText}

OverlayRequests ==
  UNION { [1..n -> [text : OverlayTexts, video_size : OverlaySizes]] : n \in 1..MaxCaptions }

InitOverlay ==
  /\ PipelineAtRest
  /\ RunLocalsInit
  /\ \E reqs \in OverlayRequests : call = [f |-> "overlay", requests |-> reqs]
  /\ value = [pending |-> TRUE, n |-> 0, renders |-> <<>>, got |-> <<>>]

\* One more request is served; renders lists the cache keys a bitmap was
\* drawn for, got what each request was handed (an exception leaves a mark).
OverlayApply ==
  /\ call.f = "overlay"
  /\ value.n < Len(call.requests)
  /\ LET req == call.requests[value.n + 1]
         o == create_text_overlay_once(req.text, req.video_size,
                                       text_overlay_cache, font_cache)
         key == <<req.text, req.video_size[1], req.video_size[2]>>
     IN /\ text_overlay_cache' = o.cache
        /\ font_cache' = o.fonts
        /\ value' = [pending |-> value.n + 1 < Len(call.requests),
                     n |-> value.n + 1,
                     renders |-> IF o.rendered THEN Append(value.renders, key)
                                               ELSE value.renders,
                     got |-> Append(value.got,
                                    IF o.raised THEN [raised |-> TRUE] ELSE o.overlay)]
  /\ UNCHANGED <<inputVars, fsVars, callerVars, pc, ret, log, poolVars, processed_scenes,
                 zoom_frame_cache, loopVars, muxExit, call>>

NextOverlay == OverlayApply

SpecOverlay == InitOverlay /\ [][NextOverlay]_vars

\* -------------------------------------------------- the pool size, alone
\* max_workers computed on its own for a machine of 1..MaxCores cores.
MaxCores == 64

InitPool ==
  /\ PipelineAtRest
  /\ RunLocalsInit
  /\ \E cpu_count \in 1..MaxCores : call = [f |-> "pool", cpu_count |-> cpu_count]
  /\ value = NoValue

PoolApply ==
  /\ call.f = "pool"
  /\ value.pending
  /\ value' = [pending |-> FALSE, max_workers |-> PoolSize(call.cpu_count)]
  /\ UNCHANGED <<pipeVars, call>>

NextPool == PoolApply

SpecPool == InitPool /\ [][NextPool]_vars

\* ------------------------------------------- two invocations, overlapping
\* Two Video objects run create_video_from_json in one working directory, each
\* on its own scenes and with its own output path.  Preprocessing touches no
\* file, so a run is followed from the opening of the writer.  The three
\* intermediate paths are the literals of the code, the same for both runs.
\* value holds
\*   at, done, rc : per run, the position, the scenes written and the exit
\*                  status of its concatenation;
\*   tv           : temp_video.mp4, with the scenes each run has in it; gen
\*                  counts the removals of the path, and handle is the gen a
\*                  run's writer was opened on (a writer goes on writing to a
\*                  removed file without reaching the path);
\*   fa, lf       : temp_combined_audio.wav and audio_list.txt, with the run
\*                  whose audio or whose lines they hold;
\*   out          : per run, what the mux put at its output path.
MaxPairScenes == 2

Procs == {"A", "B"}

Other(p) == CHOOSE q \in Procs : q # p

NoFrames == [q \in Procs |-> 0]

AbsentAudio == [exists |-> FALSE, by |-> "nobody"]

NoOutput == [exists |-> FALSE, video |-> NoFrames, audio |-> "nobody"]

InitPair ==
  /\ PipelineAtRest
  /\ RunLocalsInit
  /\ \E n \in [Procs -> 1..MaxPairScenes] : call = [f |-> "pair", scenes |-> n]
  /\ value = [pending |-> TRUE,
              at |-> [q \in Procs |-> "start"],
              done |-> [q \in Procs |-> 0],
              rc |-> [q \in Procs |-> "notrun"],
              handle |-> [q \in Procs |-> 0],
              tv |-> [exists |-> FALSE, gen |-> 0, frames |-> NoFrames],
              fa |-> AbsentAudio,
              lf |-> AbsentAudio,
              out |-> [q \in Procs |-> NoOutput]]

PairAt(p, where) == call.f = "pair" /\ value.at[p] = where

\* cv2.VideoWriter("temp_video.mp4", ...): the file is created or truncated.
PairOpen(p, opened) ==
  /\ PairAt(p, "start")
  /\ value' = IF opened
                THEN [value EXCEPT !.at[p] = "write",
                                   !.handle[p] = value.tv.gen,
                                   !.tv = [exists |-> TRUE, gen |-> value.tv.gen,
                                           frames |-> NoFrames]]
                ELSE [value EXCEPT !.at[p] = "failed"]
  /\ UNCHANGED <<pipeVars, call>>

\* The frames of one scene are written.  Two writers on one file write at
\* their own offsets: what the other wrote may survive or be overwritten.
PairWriteScene(p, clobber) ==
  /\ PairAt(p, "write")
  /\ value.done[p] < call.scenes[p]
  /\ LET reaches == value.tv.exists /\ value.handle[p] = value.tv.gen
         frames1 == IF clobber THEN [value.tv.frames EXCEPT ![Other(p)] = 0]
                               ELSE value.tv.frames
     IN value' = [value EXCEPT
                    !.done[p] = @ + 1,
                    !.tv.frames = IF reaches THEN [frames1 EXCEPT ![p] = @ + 1] ELSE @]
  /\ UNCHANGED <<pipeVars, call>>

\* video_writer.release(); finalize_video is entered.
PairRelease(p) ==
  /\ PairAt(p, "write")
  /\ value.done[p] = call.scenes[p]
  /\ value' = [value EXCEPT !.at[p] = "combine"]
  /\ UNCHANGED <<pipeVars, call>>

\* combine_audio_files on one audio file: the file itself is transcoded.
PairTranscode(p, exit) ==
  /\ PairAt(p, "combine")
  /\ call.scenes[p] = 1
  /\ value' = IF exit = "0"
                THEN [value EXCEPT !.at[p] = "merge", !.fa = [exists |-> TRUE, by |-> p]]
                ELSE [value EXCEPT !.at[p] = "failed"]
  /\ UNCHANGED <<pipeVars, call>>

\* combine_audio_files on several: audio_list.txt is written.
PairWriteManifest(p) ==
  /\ PairAt(p, "combine")
  /\ call.scenes[p] > 1
  /\ value' = [value EXCEPT !.at[p] = "concat", !.lf = [exists |-> TRUE, by |-> p]]
  /\ UNCHANGED <<pipeVars, call>>

\* ffmpeg -f concat -i audio_list.txt: it joins what the list names at the
\* time it runs, and fails without a list.
PairConcat(p, exit) ==
  /\ PairAt(p, "concat")
  /\ ~value.lf.exists => exit # "0"
  /\ value' = [value EXCEPT
                 !.at[p] = IF exit = "timeout" THEN "failed" ELSE "unlist",
                 !.rc[p] = exit,
                 !.fa = IF exit = "0" THEN [exists |-> TRUE, by |-> value.lf.by] ELSE @]
  /\ UNCHANGED <<pipeVars, call>>

\* The list file is removed if it is there; then the exit status decides, and
\* os.path.getsize of the combined track raises when it is gone.
PairRemoveManifest(p) ==
  /\ PairAt(p, "unlist")
  /\ value' = [value EXCEPT
                 !.at[p] = IF value.rc[p] = "0" /\ value.fa.exists THEN "merge" ELSE "failed",
                 !.lf = AbsentAudio]
  /\ UNCHANGED <<pipeVars, call>>

\* merge_video_audio: ffmpeg reads the two intermediate paths and fails when
\* one is missing.
PairMerge(p, exit) ==
  /\ PairAt(p, "merge")
  /\ (~value.tv.exists \/ ~value.fa.exists) => exit # "0"
  /\ value' = IF exit = "0"
                THEN [value EXCEPT !.at[p] = "cleanup",
                                   !.out[p] = [exists |-> TRUE, video |-> value.tv.frames,
                                               audio |-> value.fa.by]]
                ELSE [value EXCEPT !.at[p] = "failed"]
  /\ UNCHANGED <<pipeVars, call>>

\* cleanup_temp_files([temp_video, final_audio]) after a successful mux.
PairCleanup(p) ==
  /\ PairAt(p, "cleanup")
  /\ value' = [value EXCEPT
                 !.at[p] = "done",
                 !.tv = [exists |-> FALSE,
                         gen |-> IF value.tv.exists THEN value.tv.gen + 1 ELSE value.tv.gen,
                         frames |-> NoFrames],
                 !.fa = AbsentAudio]
  /\ UNCHANGED <<pipeVars, call>>

NextPair ==
  \E p \in Procs :
    \/ \E opened \in BOOLEAN : PairOpen(p, opened)
    \/ \E clobber \in BOOLEAN : PairWriteScene(p, clobber)
    \/ PairRelease(p)
    \/ \E exit \in ExitCodes : PairTranscode(p, exit)
    \/ PairWriteManifest(p)
    \/ \E exit \in ExitCodes : PairConcat(p, exit)
    \/ PairRemoveManifest(p)
    \/ \E exit \in ExitCodes : PairMerge(p, exit)
    \/ PairCleanup(p)

SpecPair == InitPair /\ [][NextPair]_vars

\* ================================================================= claims
\* The scenes no stage drops: both files exist, a positive duration comes
\* out of decoding or of the fallback probe, and the caption is a string.
SceneKept(s) ==
  /\ s.image_path # "" /\ imgDisk[s.image_path] # "missing"
  /\ s.audio_path # "" /\ AudioDisk[s.audio_path].exists
  /\ LET f == AudioDisk[s.audio_path]
     IN (f.decode > 0) \/ (f.decode = -1 /\ f.exit # "timeout" /\ f.probe > 0)
  /\ s.audio_text # NoneText

Kept == SelectSeq(multimedia_data, SceneKept)

SceneDuration(s) ==
  LET f == AudioDisk[s.audio_path] IN IF f.decode # -1 THEN f.decode ELSE f.probe

RECURSIVE ExpectedTimeline(_)
ExpectedTimeline(scenes) ==
  IF scenes = <<>> THEN <<>>
  ELSE LET s == Head(scenes)
           n == (SceneDuration(s) * Fps) \div 1000
       IN [f \in 1..n |-> [audio |-> s.audio_path,
                           img |-> LoadImage(imgDisk, s.image_path),
                           frame_num |-> f - 1]]
          \o ExpectedTimeline(Tail(scenes))

ActualTimeline ==
  [k \in 1..Len(written) |->
     [audio |-> processed_scenes[written[k].i].audio_path,
      img |-> written[k].img,
      frame_num |-> written[k].frame_num]]

\* process_scenes_parallel has returned normally.
PoolReturned ==
  max_workers > 0 /\ pc # "pool" /\ \A k \in DOMAIN task : task[k] = "done"

\* The writer has been opened by this call.
Compositing == writerOpen \/ temp_audio_files # <<>>

\* The writer has been released by this call.
Released == ~writerOpen /\ temp_audio_files # <<>>

ProbeSucceeds(s) == process_single_scene_worker(s, Fps, imgDisk).ok

ExpectedProbeResults ==
  LET ok == SelectSeq(multimedia_data, ProbeSucceeds)
  IN [k \in 1..Len(ok) |-> process_single_scene_worker(ok[k], Fps, imgDisk)]

\* C1: whatever the pool size and the order in which the workers complete,
\* process_scenes_parallel returns the results of exactly the scenes whose
\* probe succeeded, in input order and unaltered; the result is a function
\* of the input alone, so one worker and several give the same.
C1_PoolOrderPreserved ==
  PoolReturned => parallel_results = ExpectedProbeResults

\* Two different valid scenes, the second finished first, on a pool of more
\* than one worker.
C1_Witness ==
  /\ PoolReturned
  /\ max_workers > 1
  /\ doneOrder = <<2, 1>>
  /\ Len(parallel_results) = 2
  /\ parallel_results[1] # parallel_results[2]

FrameLog == [k \in 1..Len(written) |-> <<written[k].i, written[k].frame_num>>]

BlockOf(k, n) == [f \in 1..n |-> <<k, f - 1>>]

RECURSIVE BlocksUpTo(_)
BlocksUpTo(k) ==
  IF k = 0 THEN <<>>
  ELSE BlocksUpTo(k - 1) \o BlockOf(k, processed_scenes[k].total_frames)

ExpectedOverlay(text) ==
  IF Strip(text) = <<>> THEN NoOverlay
  ELSE [none |-> FALSE, text |-> text, size |-> VideoSize]

\* C2: the frames are written scene by scene in the order of the processed
\* scenes, inside a scene in ascending index from 0, each frame taken from
\* its own scene's zoom frame set; the k-th audio path is the k-th scene's;
\* and the processed scenes are the kept input scenes in input order.
C2_OrderEndToEnd ==
  Compositing =>
    /\ FrameLog = BlocksUpTo(i - 1) \o
         (IF i <= Len(processed_scenes) THEN BlockOf(i, frame_num) ELSE <<>>)
    /\ temp_audio_files = [k \in 1..(i - 1) |-> processed_scenes[k].audio_path]
    /\ \A k \in DOMAIN written :
         LET set == zoom_frame_cache[processed_scenes[written[k].i].zoom_frames]
         IN written[k].sample \in DOMAIN set /\ written[k].img = set[written[k].sample].img
    /\ [k \in DOMAIN processed_scenes |->
          <<processed_scenes[k].zoom_frames[1], processed_scenes[k].audio_path,
            processed_scenes[k].text_overlay>>]
       = [k \in DOMAIN Kept |->
          <<Kept[k].image_path, Kept[k].audio_path, ExpectedOverlay(Kept[k].audio_text)>>]

\* Two different scenes composited, the second one's frames after the first's.
C2_Witness ==
  /\ Released
  /\ Len(processed_scenes) = 2
  /\ processed_scenes[1].audio_path # processed_scenes[2].audio_path
  /\ processed_scenes[1].total_frames > 1
  /\ processed_scenes[2].total_frames > 1
  /\ Len(temp_audio_files) = 2

FramesOfScene(k) == Cardinality({n \in DOMAIN written : written[n].i = k})

\* C3: once the writer is released the frames written number the sum of the
\* scenes' total_frames, each scene having contributed exactly its own.
C3_FrameCount ==
  Released =>
    /\ Len(written) = SumSeq([k \in DOMAIN processed_scenes |-> processed_scenes[k].total_frames])
    /\ \A k \in DOMAIN processed_scenes : FramesOfScene(k) = processed_scenes[k].total_frames

C3_Witness ==
  /\ Released
  /\ Len(processed_scenes) = 2
  /\ Len(written) = 8
  /\ processed_scenes[1].total_frames = 2

Ended == pc \in {"returned", "done"} /\ calls > 0

\* This call wrote a list file (combine_audio_files ran on several paths).
ManifestWritten == Released /\ pc # "combine" /\ Len(temp_audio_files) > 1

\* The intermediate files of this call: the silent video, the combined
\* audio, and the list file when the call wrote one.
Intermediates == {TempVideo, FinalAudio} \cup (IF ManifestWritten THEN {ListFile} ELSE {})

\* C5 (as claimed): after a run that ends with True or False none of its
\* intermediate files remains.
C5_CleanupAlways ==
  (Ended /\ ret \in {"True", "False"}) => \A f \in Intermediates : files[f] = "absent"

\* C6 (as claimed): every call ends by returning a boolean.
C6_AlwaysReturnsBool ==
  Ended => ret \in {"True", "False"}

\* C7: after a run that failed or was cut short by an exception, and while
\* a run is under way, the session holds no video path, whatever the mux
\* left at the output path.
C7_NoPartialVideoExposed ==
  (pc # "idle" /\ ret # "True") => video_path = ""

\* A mux that failed after it began to write the target: the partial file is
\* there and the session holds no path.
C7_Witness ==
  /\ pc = "done"
  /\ ret = "False"
  /\ muxExit \in {"nonzero", "timeout"}
  /\ files[Output] = "partial"
  /\ video_path = ""

\* C8 (as claimed): True is returned only after a mux that exited with 0 and
\* left a file of non-zero size at the output path.
C8_SuccessMeansNonEmptyOutput ==
  ret = "True" => (muxExit = "0" /\ files[Output] = "full")

\* C9 (as claimed): after a successful run the three intermediate files are
\* gone and the output exists.
C9_AllRemovedOnSuccess ==
  ret = "True" =>
    /\ \A f \in Intermediates : files[f] = "absent"
    /\ files[Output] # "absent"

\* C9 (amended): after a successful run the output exists, the list file the
\* run wrote is gone, and the silent video and the combined audio are each
\* gone unless their removal failed, which was then logged.
C9_RemovedUnlessRemovalFailed ==
  ret = "True" =>
    /\ files[Output] # "absent"
    /\ ManifestWritten => files[ListFile] = "absent"
    /\ \A f \in {TempVideo, FinalAudio} :
         files[f] = "absent" \/ <<"could_not_remove", f>> \in log

\* A successful run of two scenes: the list file was written and is gone,
\* and so are the two temporaries.
C9_Witness ==
  /\ ret = "True"
  /\ manifest = temp_audio_files
  /\ Len(temp_audio_files) = 2
  /\ \A f \in {TempVideo, FinalAudio, ListFile} : files[f] = "absent"
  /\ files[Output] = "full"

\* C10 (as claimed): every call starts with empty caches, and the frames a
\* call writes show the image file as it is during that call.
C10_CachesFreshPerCall ==
  /\ pc = "load" =>
       (font_cache = {} /\ text_overlay_cache = EmptyCache /\ zoom_frame_cache = EmptyCache)
  /\ pc # "idle" =>
       \A k \in DOMAIN written :
         written[k].img = LoadImage(imgDisk, processed_scenes[written[k].i].zoom_frames[1])

\* C11 (as claimed): every frame written for a scene that has an overlay
\* carries that overlay blended exactly once over the zoom frame as it was
\* materialized, so the frames of a scene that resolve to one sample are
\* equal.
C11_BlendedExactlyOnce ==
  \A k \in DOMAIN written :
    LET scene == processed_scenes[written[k].i]
    IN scene.text_overlay # NoOverlay =>
         /\ written[k].layers = <<scene.text_overlay.text>>
         /\ \A m \in DOMAIN written :
              (written[m].i = written[k].i /\ written[m].sample = written[k].sample)
                => written[m].layers = written[k].layers

Picked == value.picked

\* C12: whatever the two strides and the number of frames (at least one),
\* every frame index below total_frames resolves to a frame of the set
\* precalculate_zoom_frames built: no lookup raises and each yields a key of
\* the set.
C12_LookupNeverFails ==
  (ZoomBuilt /\ call.total_frames >= 1) =>
    /\ \A fn \in 0..(call.total_frames - 1) :
         ~lookup_raises(value.zoom_frames, fn, call.rate)
    /\ \A k \in DOMAIN Picked :
         ~Picked[k].raised /\ Picked[k].key \in DOMAIN value.zoom_frames

\* All frames of a scene looked up, one of them through the nearest-key
\* search because its stride multiple is no key of the set.
C12_Witness ==
  /\ ZoomBuilt
  /\ call.total_frames >= 5
  /\ Len(Picked) = call.total_frames
  /\ \E k \in DOMAIN Picked : Picked[k].key # ((k - 1) \div call.rate) * call.rate

LeqFrac(x, y) == x[1] * y[2] <= y[1] * x[2]

\* C13: with one stride for building and looking up, the zoom factors of the
\* frames of a scene never decrease with the frame index, the first is 1.0,
\* none exceeds zoom_end, and the last frame's is within
\* (zoom_end - zoom_start) * stride / total_frames of zoom_end.
C13_ZoomMonotoneBounded ==
  (ZoomBuilt /\ call.build_rate = call.rate) =>
    /\ \A a, b \in DOMAIN Picked : a <= b => LeqFrac(Picked[a].zoom, Picked[b].zoom)
    /\ Picked # <<>> => Picked[1].zoom[1] = Picked[1].zoom[2]
    /\ \A k \in DOMAIN Picked : LeqFrac(Picked[k].zoom, <<zoom_end_pct, 100>>)
    /\ (Picked # <<>> /\ Len(Picked) = call.total_frames) =>
         LET z == Picked[Len(Picked)].zoom
         IN (zoom_end_pct * z[2] - 100 * z[1]) * call.total_frames
              <= (zoom_end_pct - zoom_start_pct) * call.rate * z[2]

\* A scene of ten frames at the stride of the code, all frames looked up, the
\* zoom of the last above that of the first.
C13_Witness ==
  /\ ZoomBuilt
  /\ call.build_rate = zoom_sample_rate /\ call.rate = sample_rate
  /\ call.total_frames = MaxFrames
  /\ Len(Picked) = call.total_frames
  /\ ~LeqFrac(Picked[Len(Picked)].zoom, Picked[1].zoom)

\* The lines of a string: the pieces between its newlines.
RECURSIVE LinesOf(_, _)
LinesOf(t, cur) ==
  IF t = <<>> THEN <<cur>>
  ELSE IF Head(t) = "\n" THEN <<cur>> \o LinesOf(Tail(t), <<>>)
  ELSE LinesOf(Tail(t), Append(cur, Head(t)))

Wrapped == call.f = "wrap" /\ ~value.pending

IsWordOf(line, text) ==
  \E k \in DOMAIN SplitWords(text, <<>>) : SplitWords(text, <<>>)[k] = line

WorkerDone == call.f = "worker" /\ ~value.pending

\* C15: a scene the worker lets through carries a duration above 0 and
\* total_frames = floor(duration * fps), at every frame rate: total_frames
\* <= duration * fps < total_frames + 1 (durations in milliseconds).
C15_TotalFramesIsFloor ==
  (WorkerDone /\ value.result.ok) =>
    LET d == value.result.audio_duration
        n == value.result.total_frames
    IN /\ d > 0
       /\ d = SceneDuration(call.scene_item)
       /\ n * 1000 <= d * call.fps
       /\ d * call.fps < (n + 1) * 1000

\* A duration times a frame rate that is no whole number of frames: 250 ms
\* at 7 fps, 1.75 frames, gives 1.
C15_Witness ==
  /\ WorkerDone
  /\ value.result.ok
  /\ call.fps = 7
  /\ value.result.audio_duration = 250
  /\ value.result.total_frames = 1

\* The silent video's length and the combined audio's, both in units of
\* 1/(1000 * Fps) s: a frame is 1000 units, a millisecond Fps units.
VideoLength == Len(written) * 1000
AudioLength == SumSeq([k \in DOMAIN temp_audio_files |-> ProbeDuration(temp_audio_files[k])]) * Fps

\* -shortest: the mux ends with the shorter of its two input streams.
MuxLength == Min(VideoLength, AudioLength)

\* C16: once all scenes are written, the audio durations added up, times
\* fps, exceed the frames added up by less than one frame per scene and by
\* no less than 0; the silent video is no longer than the combined audio,
\* and the mux, cut to the shorter stream, has the video's length.
C16_TimelineMatchesAudio ==
  Released =>
    LET N == Len(processed_scenes)
        A == SumSeq([k \in DOMAIN processed_scenes |-> processed_scenes[k].duration]) * Fps
        V == SumSeq([k \in DOMAIN processed_scenes |-> processed_scenes[k].total_frames]) * 1000
    IN /\ 0 <= A - V
       /\ A - V < N * 1000
       /\ VideoLength = V
       /\ AudioLength = A
       /\ VideoLength <= AudioLength
       /\ MuxLength = VideoLength

\* Two scenes whose fractions of a frame add up to more than one frame
\* (0.72 and 0.4), muxed.
C16_Witness ==
  /\ ret = "True"
  /\ Len(processed_scenes) = 2
  /\ AudioLength - VideoLength > 1000
  /\ Len(written) = 2

\* C17: narrations of 2 s, 3 s and 1 s at 24 fps give total_frames 48, 72
\* and 24; the writer gets 144 frames, the first scene's 48, then the
\* second's 72, then the third's 24; and a mux that succeeds yields
\* min(video, audio) = 6.0 s.
C17_StoryOf144Frames ==
  /\ PoolReturned =>
       [k \in DOMAIN parallel_results |-> parallel_results[k].total_frames] = <<48, 72, 24>>
  /\ Released =>
       /\ Len(written) = 144
       /\ FrameLog = BlockOf(1, 48) \o BlockOf(2, 72) \o BlockOf(3, 24)
       /\ temp_audio_files = <<"two.wav", "three.wav", "one.wav">>
  /\ (ret = "True" /\ files[Output] = "full") =>
       /\ VideoLength = 6000 * Fps
       /\ AudioLength = 6000 * Fps
       /\ MuxLength = 6000 * Fps

\* The story muxed with success after its 144 frames.
C17_Witness ==
  /\ multimedia_data = Story
  /\ ret = "True"
  /\ files[Output] = "full"
  /\ Len(written) = 144
  /\ Fps = 24

\* C18 (as claimed): a tool that times out is treated as one that exits with
\* a non-zero status: in the same surroundings the audio stage gives the same
\* result and leaves the same files and list file either way, and so does the
\* mux.
C18_TimeoutLikeNonZero ==
  /\ pc = "combine" =>
       \A wrote \in BOOLEAN, rm_ok \in BOOLEAN :
         combine_audio_files(temp_audio_files, files, manifest, "timeout", wrote, rm_ok)
           = combine_audio_files(temp_audio_files, files, manifest, "nonzero", wrote, rm_ok)
  /\ pc = "merge" =>
       /\ merge_video_audio("timeout") = merge_video_audio("nonzero")
       /\ MuxOutputs("timeout") = MuxOutputs("nonzero")

Undecodable(image_path) == image_path \in DOMAIN imgDisk /\ imgDisk[image_path] = "corrupt"

\* The heavy stage of this call is over and the run goes on.
Preprocessed == pc \in {"open", "write", "combine", "merge", "final"} \/ Compositing

\* C19: a kept scene whose image exists but cannot be decoded stays in the
\* timeline at its place, its zoom frames are blank buffers, it contributes
\* exactly total_frames blank frames and its audio, and the run does not end
\* for want of scenes.
C19_BlankForUndecodable ==
  /\ Preprocessed =>
       \A k \in DOMAIN Kept :
         Undecodable(Kept[k].image_path) =>
           /\ k \in DOMAIN processed_scenes
           /\ processed_scenes[k].zoom_frames[1] = Kept[k].image_path
           /\ processed_scenes[k].total_frames = TotalFrames(SceneDuration(Kept[k]), Fps)
           /\ \A fn \in DOMAIN zoom_frame_cache[processed_scenes[k].zoom_frames] :
                zoom_frame_cache[processed_scenes[k].zoom_frames][fn].img = "blank"
  /\ Released =>
       \A k \in DOMAIN processed_scenes :
         Undecodable(processed_scenes[k].zoom_frames[1]) =>
           /\ FramesOfScene(k) = processed_scenes[k].total_frames
           /\ \A n \in DOMAIN written : written[n].i = k => written[n].img = "blank"
           /\ temp_audio_files[k] = processed_scenes[k].audio_path
  /\ (\E k \in DOMAIN Kept : Undecodable(Kept[k].image_path)) =>
       <<"no_valid_scenes">> \notin log

\* A run that succeeds on a scene with an undecodable image followed by a
\* scene with a good one: blank frames first, then the image's.
C19_Witness ==
  /\ ret = "True"
  /\ Len(processed_scenes) = 2
  /\ Undecodable(processed_scenes[1].zoom_frames[1])
  /\ Len(written) = 8
  /\ written[1].img = "blank"
  /\ written[8].img = "B"

\* The failure of the duration probe as the claim has it: decoding failed and
\* the fallback failed too (non-zero exit, timeout, or output that is no
\* number), or the duration obtained is not above 0.
ClaimedProbeFailure(audio_path) ==
  LET f == AudioDisk[audio_path]
  IN \/ f.decode = -1 /\ (f.exit # "0" \/ f.probe = -1)
     \/ f.decode # -1 /\ f.decode <= 0
     \/ f.decode = -1 /\ f.exit = "0" /\ f.probe # -1 /\ f.probe <= 0

\* C20 (as claimed): for a scene whose two files exist the worker returns
\* None exactly when the probe failed in the sense above, and the fallback is
\* run only after decoding failed.
C20_ProbeFailsExactlyWhen ==
  (/\ WorkerDone
   /\ PathExistsImage(imgDisk, call.scene_item.image_path)
   /\ PathExistsAudio(call.scene_item.audio_path)) =>
    /\ ~value.result.ok <=> ClaimedProbeFailure(call.scene_item.audio_path)
    /\ probe_invoked(call.scene_item.audio_path) =>
         AudioDisk[call.scene_item.audio_path].decode = -1

\* C21: after the writer failed to open, no frame has been written, no audio
\* path gathered, neither the audio stage nor the mux has run and the call
\* has returned False; after the audio stage failed, the mux has not run,
\* nothing is at the output path and the call has returned False.
C21_StageErrorsAbort ==
  /\ <<"writer_failed">> \in log =>
       /\ pc \in {"returned", "done"} /\ ret = "False"
       /\ ~writerOpen /\ written = <<>> /\ temp_audio_files = <<>>
       /\ files[TempVideo] = "absent" /\ files[FinalAudio] = "absent"
       /\ <<"audio_failed">> \notin log /\ <<"merge_failed">> \notin log
       /\ muxExit = "notrun"
  /\ <<"audio_failed">> \in log =>
       /\ pc \in {"returned", "done"} /\ ret = "False"
       /\ <<"merge_failed">> \notin log
       /\ muxExit = "notrun"
       /\ files[Output] = "absent"

\* The audio stage failed after the frames of two scenes were written.
C21_Witness ==
  /\ pc = "done"
  /\ <<"audio_failed">> \in log
  /\ Len(temp_audio_files) = 2
  /\ Len(written) > 0
  /\ files[TempVideo] = "full"

\* C22: when the frames are written, the audio path list holds the audio path
\* of every processed scene in scene order.  With one entry the audio stage
\* runs one transcode of that file and writes no manifest; otherwise it writes
\* the list as the manifest, entry for entry, and runs one concatenation over
\* it.  It returns False on a non-zero exit or a timeout, and True only on
\* exit 0.  When the mux is entered the manifest of a multi-scene run is the
\* audio path list.
C22_AudioAssembler ==
  /\ pc = "combine" =>
       /\ temp_audio_files = [k \in 1..Len(processed_scenes) |-> processed_scenes[k].audio_path]
       /\ \A exit \in ExitCodes, wrote \in BOOLEAN, rm_ok \in BOOLEAN :
            temp_audio_files # <<>> =>
              LET r == combine_audio_files(temp_audio_files, files, manifest, exit, wrote, rm_ok)
              IN /\ exit # "0" => ~r.ok
                 /\ r.ok => exit = "0"
                 /\ IF Len(temp_audio_files) = 1
                      THEN /\ r.cmd.op = "transcode"
                           /\ r.cmd.input = temp_audio_files[1]
                           /\ r.manifest = manifest
                           /\ r.files[ListFile] = files[ListFile]
                      ELSE /\ r.cmd.op = "concat"
                           /\ r.cmd.input = ListFile
                           /\ Len(r.manifest) = Len(processed_scenes)
                           /\ \A k \in 1..Len(processed_scenes) :
                                r.manifest[k] = processed_scenes[k].audio_path
  /\ (pc = "merge" /\ Len(temp_audio_files) > 1) =>
       /\ manifest = temp_audio_files
       /\ manifest = [k \in 1..Len(processed_scenes) |-> processed_scenes[k].audio_path]

\* The mux is entered after a concatenation over two different audio files.
C22_Witness ==
  /\ pc = "merge"
  /\ Len(temp_audio_files) = 2
  /\ temp_audio_files[1] # temp_audio_files[2]
  /\ manifest = temp_audio_files
  /\ files[FinalAudio] = "full"

\* The cache key of a request.
OverlayKey(req) == <<req.text, req.video_size[1], req.video_size[2]>>

OverlayBlank(req) == req.text # NoneText /\ Strip(req.text) = <<>>

OverlayDrawn(req) == req.text # NoneText /\ Strip(req.text) # <<>>

\* C23: over the requests served so far, a bitmap was drawn at most once for
\* each (caption text, width, height); the cache holds exactly the keys drawn;
\* a request with a drawable caption was handed the cached bitmap of its key,
\* so equal requests were handed the same one; a request whose caption is
\* empty or whitespace was handed None and left no cache entry.
C23_OverlayRenderedOnce ==
  call.f = "overlay" =>
    LET reqs == call.requests
        n == value.n
    IN /\ \A a, b \in 1..Len(value.renders) :
            value.renders[a] = value.renders[b] => a = b
       /\ DOMAIN text_overlay_cache = { value.renders[a] : a \in 1..Len(value.renders) }
       /\ \A k \in 1..n :
            /\ OverlayBlank(reqs[k]) =>
                 /\ value.got[k] = NoOverlay
                 /\ OverlayKey(reqs[k]) \notin DOMAIN text_overlay_cache
            /\ OverlayDrawn(reqs[k]) =>
                 /\ OverlayKey(reqs[k]) \in DOMAIN text_overlay_cache
                 /\ value.got[k] = text_overlay_cache[OverlayKey(reqs[k])]
                 /\ value.got[k].text = reqs[k].text
                 /\ value.got[k].size = reqs[k].video_size
       /\ \A j, k \in 1..n :
            (OverlayDrawn(reqs[j]) /\ reqs[j] = reqs[k]) => value.got[j] = value.got[k]

\* Three requests were served: a caption, a blank one and the first caption
\* again; one bitmap was drawn.
C23_Witness ==
  /\ call.f = "overlay"
  /\ value.n = 3
  /\ OverlayDrawn(call.requests[1])
  /\ OverlayBlank(call.requests[2])
  /\ call.requests[3] = call.requests[1]
  /\ Len(value.renders) = 1
  /\ value.got[2] = NoOverlay
  /\ value.got[3] = value.got[1]

PoolDone == call.f = "pool" /\ ~value.pending

\* floor(0.75 * cores): the one n with n <= 3 * cores / 4 < n + 1.
ThreeQuarters(cores) == CHOOSE n \in 0..cores : 4 * n <= 3 * cores /\ 3 * cores < 4 * (n + 1)

\* C24: for every core count >= 1 the pool size lies in 1..8 and is
\* min(8, max(1, floor(0.75 * cores))).
C24_PoolSizeClamped ==
  PoolDone =>
    /\ value.max_workers \in 1..8
    /\ LET fl == ThreeQuarters(call.cpu_count)
       IN value.max_workers = (IF fl < 1 THEN 1 ELSE IF fl > 8 THEN 8 ELSE fl)

\* The size was computed for a machine where the cap applies.
C24_Witness == PoolDone /\ call.cpu_count = 16 /\ value.max_workers = 8

ZoomEffectDone == call.f = "zoom_effect" /\ ~value.pending

\* C25: for every zoom factor from 1.0 to 1.15 and every canvas, the bitmap
\* has the width and height of the canvas; it is a direct resize exactly at
\* factor 1.0; otherwise the image is resized to floor(canvas * factor) in
\* each dimension and the crop window lies inside the resized image.
C25_ZoomedFrameFitsCanvas ==
  ZoomEffectDone =>
    LET z == ZoomFactor(call.frame_num, call.total_frames)
        w == call.target_size[1]
        h == call.target_size[2]
        fr == value.frame
    IN /\ LeqFrac(<<1, 1>>, z) /\ LeqFrac(z, <<115, 100>>)
       /\ fr.size = <<w, h>>
       /\ fr.direct <=> (z[1] = z[2])
       /\ ~fr.direct =>
            /\ fr.resized[1] * z[2] <= w * z[1] /\ w * z[1] < (fr.resized[1] + 1) * z[2]
            /\ fr.resized[2] * z[2] <= h * z[1] /\ h * z[1] < (fr.resized[2] + 1) * z[2]
       /\ 0 <= fr.crop[1] /\ fr.crop[3] <= fr.resized[1] /\ fr.crop[3] - fr.crop[1] = w
       /\ 0 <= fr.crop[2] /\ fr.crop[4] <= fr.resized[2] /\ fr.crop[4] - fr.crop[2] = h

\* A zoom above 1.0 whose crop window starts inside the resized image, off
\* its edge, with an odd margin.
C25_Witness ==
  /\ ZoomEffectDone
  /\ ~value.frame.direct
  /\ value.frame.crop[1] > 0
  /\ (value.frame.resized[1] - call.target_size[1]) % 2 = 1
  /\ value.frame.size = call.target_size

\* C26 (as claimed): compositing leaves every cached zoom frame as it was
\* materialized; every frame written for a scene without a caption carries no
\* overlay, and every frame written for a captioned scene carries no caption
\* but its own.
C26_ScenesIsolated ==
  /\ \A key \in DOMAIN zoom_frame_cache :
       \A fn \in DOMAIN zoom_frame_cache[key] : zoom_frame_cache[key][fn].layers = <<>>
  /\ \A k \in DOMAIN written :
       LET scene == processed_scenes[written[k].i]
           layers == written[k].layers
       IN IF scene.text_overlay = NoOverlay
            THEN layers = <<>>
            ELSE \A l \in DOMAIN layers : layers[l] = scene.text_overlay.text

\* C27 (as claimed): while a run still needs an intermediate file it made,
\* the file is at its path and holds that run's data only: the silent video
\* from the opening of the writer to the mux, the manifest from its writing to
\* the concatenation, the combined track from its making to the mux; and
\* whatever a run put at its output path holds its own scenes and its own
\* audio only.
C27_NoInterference ==
  call.f = "pair" =>
    \A p \in Procs :
      /\ value.at[p] \in {"write", "combine", "concat", "unlist", "merge"} =>
           /\ value.tv.exists
           /\ value.tv.frames = [NoFrames EXCEPT ![p] = value.done[p]]
      /\ value.at[p] = "concat" => (value.lf.exists /\ value.lf.by = p)
      /\ value.at[p] = "merge" => (value.fa.exists /\ value.fa.by = p)
      /\ value.out[p].exists =>
           /\ value.out[p].video = [NoFrames EXCEPT ![p] = call.scenes[p]]
           /\ value.out[p].audio = p

\* C28 (as claimed): every scene whose audio path is in the list handed to
\* the audio stage has at least one frame, and at least one frame of it was
\* written.
C28_EverySceneHasFrames ==
  Released =>
    \A k \in DOMAIN temp_audio_files :
      /\ processed_scenes[k].total_frames >= 1
      /\ \E m \in DOMAIN written : written[m].i = k

\* C29: splitting what wrap_text returns on whitespace gives the words of the
\* caption, each whole, once and in the order of the caption, whatever the
\* widths of the words and the maximum width.
C29_WrapKeepsWords ==
  Wrapped => SplitWords(value.text, <<>>) = SplitWords(call.text, <<>>)

\* Three words, one of them wider than the maximum width on its own, wrapped
\* into more than one line.
C29_Witness ==
  /\ Wrapped
  /\ call.font = "truetype"
  /\ Len(SplitWords(call.text, <<>>)) = 3
  /\ \E k \in 1..3 : Width(SplitWords(call.text, <<>>)[k]) > call.max_width
  /\ Len(LinesOf(value.text, <<>>)) >= 2

\* The zoom frame set of processed scene k.
ZoomSetOf(k) == zoom_frame_cache[processed_scenes[k].zoom_frames]

\* C30: for every processed scene and every frame index f below its
\* total_frames, (f div 4) * 4 is a key of the scene's zoom frame set, so the
\* lookup returns from its first branch; every frame written used that key,
\* which is the largest key of the set not above f, and within a scene the
\* key never decreases from one frame to the next.
C30_StrideKeyMaterialized ==
  /\ \A k \in DOMAIN processed_scenes :
       \A f \in 0..(processed_scenes[k].total_frames - 1) :
         /\ (f \div 4) * 4 \in DOMAIN ZoomSetOf(k)
         /\ get_closest_zoom_frame(ZoomSetOf(k), f, sample_rate) = (f \div 4) * 4
  /\ \A m \in DOMAIN written :
       LET f == written[m].frame_num
           keys == DOMAIN ZoomSetOf(written[m].i)
       IN /\ written[m].sample = (f \div 4) * 4
          /\ written[m].sample \in keys
          /\ written[m].sample <= f
          /\ \A x \in keys : x <= f => x <= written[m].sample
  /\ \A m, n \in DOMAIN written :
       (written[m].i = written[n].i /\ written[m].frame_num <= written[n].frame_num)
         => written[m].sample <= written[n].sample

\* All six frames of a scene are written, the last two from the sample at
\* index 4.
C30_Witness ==
  \E m \in DOMAIN written :
    /\ processed_scenes[written[m].i].total_frames = 6
    /\ written[m].frame_num = 5
    /\ written[m].sample = 4
    /\ DOMAIN ZoomSetOf(written[m].i) = {0, 4}

====
